---- MODULE Spec2Model ----
(***************************************************************************)
(* Model of structure_exporter.py: the VideoPlayer (capture cursor,        *)
(* decode threads, scrub state, loop region) and the StructureExporter     *)
(* handlers that drive it.                                                 *)
(*                                                                         *)
(* Time is counted in ticks of 1/24 s, so that every frame timestamp of a  *)
(* source whose frame rate divides 24 is an exact integer.                 *)
(*                                                                         *)
(* A handler of the Tk main thread is one action.  The decode threads are  *)
(* separate processes: a thread is "loop" when it is about to evaluate the *)
(* while-condition of _decode_loop, "body" when it has passed the test and *)
(* is about to run one iteration, "dead" when it does not exist.  The main *)
(* thread releases the interpreter lock inside cap.set / cap.read, so an   *)
(* iteration of a thread that is in "body" may also take place inside      *)
(* seek, between its cursor assignment and show_frame (Interleave).        *)
(***************************************************************************)
EXTENDS Integers, Sequences, FiniteSets, TLC

VARIABLES player, current_segment, in_point, out_point, index, last,
          output_name_var, resolution_var, status_var, export_btn,
          export, after_queue, files, shown,
          markers, index_file, segment_var, poll_timer, tk, pace

\* the export form, the export thread, the callbacks it handed to the main
\* thread (root.after), and the dialogs and status lines shown since
\* export_clip was last called
evars == <<resolution_var, export_btn, export, after_queue, shown>>
\* the markers of the current segment, the content of index.json, the
\* segment selection, the pending timer of _poll_commands, and the
\* callbacks of on_slider and play that wait in Tk's timer queue, and the
\* clock and frame target of the decode loop
mvars == <<markers, index_file, segment_var, poll_timer, tk, pace>>
\* and the paths that exist under the output directory
xvars == <<evars, files, mvars>>
\* xvars without the timer queue
uvars == <<evars, files, markers, index_file, segment_var, poll_timer, pace>>

vars == <<player, current_segment, in_point, out_point, index, last,
          output_name_var, status_var, xvars>>

\* ---------------------------------------------------------------- bounds
ClipFrames == 4
MaxThreads == 2

LongSeconds == 70
MaxExports == 1
MaxUiTimers == 2
\* the clock of the decode loop: units per frame interval, the longest
\* read and frame callback, the longest overrun of a sleep, the last
\* instant at which an iteration starts
FrameInterval == 4
MaxWork == 12
MaxOversleep == 6
MaxTime == 24

\* ------------------------------------------------------------- constants
DefaultFps == 24
MaxDur640 == 16
MaxDur320 == 66
CoarseMargin == 5
\* 0.1 s and 0.05 s as fractions of a second
ToleranceDen == 10
OffsetDen == 20
\* root.after(300, ...) and time_label.after(100, ...), in ms
ScrubDelay == 300
UiDelay == 100
TicksPerSecond == DefaultFps

NoCap == <<>>
NoSegment == <<>>

SegA == <<"segments", "segment_01.mp4">>
\* a file of the same name in another directory (Open File...)
SegB == <<"downloads", "segment_01.mp4">>

SegLong == <<"segments", "segment_02.mp4">>
\* a file in the segment directory that cv2.VideoCapture cannot open
SegBad == <<"segments", "segment_03.mp4">>
OUTPUT_DIR == "3d_rarities_structure"

\* What cv2.VideoCapture reports for a path (CAP_PROP_FRAME_COUNT, CAP_PROP_FPS).
SourceFrames(path) ==
    CASE path = SegA -> ClipFrames
      [] path = SegB -> ClipFrames - 1
      [] path = SegLong -> LongSeconds * 24
      [] OTHER -> 0

SourceFps(path) ==
    CASE path = SegA -> 12
      [] path = SegLong -> 24
      [] OTHER -> 0

Threads == 1..MaxThreads

Min(S) == CHOOSE x \in S : \A y \in S : x <= y
Max2(a, b) == IF a >= b THEN a ELSE b
Min2(a, b) == IF a <= b THEN a ELSE b

\* ------------------------------------------------------------ the capture
\* cap.get(CAP_PROP_POS_MSEC) / 1000.0, in ticks
get_current_time(p) ==
    IF p.cap # NoCap THEN (p.pos * TicksPerSecond) \div p.fps
    ELSE (p.current_frame * TicksPerSecond) \div p.fps

\* the frame cap.set(CAP_PROP_POS_MSEC, t) lands on
FrameAt(p, t) == (t * p.fps) \div TicksPerSecond

\* ret of cap.read(): a frame is available at the cursor
read_ret(p) == p.pos < p.total_frames

\* ------------------------------------------------------------ decode loop
\* decode_step with > for >= at line 288
decode_step_late(p) ==
    IF ~read_ret(p) THEN p
    ELSE LET q == [p EXCEPT !.pos = @ + 1, !.current_frame = @ + 1] IN
         IF q.loop_out > 0
         THEN IF get_current_time(q) > q.loop_out
              THEN [q EXCEPT !.pos = FrameAt(q, q.loop_in),
                             !.current_frame = (q.loop_in * q.fps) \div TicksPerSecond]
              ELSE q
         ELSE IF q.current_frame >= q.total_frames
              THEN [q EXCEPT !.pos = 0, !.current_frame = 0]
              ELSE q

\* one iteration of the while body of _decode_loop
decode_step(p) ==
    IF ~read_ret(p) THEN p
    ELSE LET q == [p EXCEPT !.pos = @ + 1, !.current_frame = @ + 1] IN
         IF q.loop_out > 0
         THEN IF get_current_time(q) >= q.loop_out
              THEN [q EXCEPT !.pos = FrameAt(q, q.loop_in),
                             !.current_frame = (q.loop_in * q.fps) \div TicksPerSecond]
              ELSE q
         ELSE IF q.current_frame >= q.total_frames
              THEN [q EXCEPT !.pos = 0, !.current_frame = 0]
              ELSE q

\* thread t runs one iteration and returns to the loop test
thread_iteration(p, t) == [decode_step(p) EXCEPT !.threads[t] = "loop"]

\* self._decode_thread.join(): the referenced thread finishes the iteration
\* it is in, sees _decode_running == False and exits
join(p) ==
    LET t == p.decode_thread IN
    IF t # 0 /\ p.threads[t] # "dead"
    THEN LET q == IF p.threads[t] = "body" THEN decode_step(p) ELSE p
         IN [q EXCEPT !.threads[t] = "dead"]
    ELSE p

\* states the player can be in after a decode thread that already passed its
\* loop test ran (or did not run) its iteration concurrently with the caller
Interleave(p) ==
    {p} \cup {thread_iteration(p, t) : t \in {u \in Threads : p.threads[u] = "body"}}

\* ------------------------------------------------------------ VideoPlayer
show_frame(p) ==
    IF p.cap = NoCap THEN p
    ELSE IF read_ret(p)
         THEN [p EXCEPT !.pos = p.current_frame]
         ELSE p

clamp(frame_num, total) == Max2(0, Min2(frame_num, total - 1))

seek(p, frame_num, scrubbing) ==
    IF p.cap = NoCap THEN {p}
    ELSE LET p1 == IF p.playing
                   THEN LET a == [p EXCEPT
                                    !.was_playing_before_scrub =
                                        IF scrubbing THEN TRUE ELSE @,
                                    !.decode_running = FALSE,
                                    !.playing = FALSE]
                        IN [join(a) EXCEPT !.decode_thread = 0]
                   ELSE p
             f == clamp(frame_num, p1.total_frames)
             p2 == [p1 EXCEPT !.pos = f, !.current_frame = f]
         IN {show_frame(q) : q \in Interleave(p2)}

play(p) ==
    LET free == {t \in Threads : p.threads[t] = "dead"} IN
    IF free = {} THEN {}
    ELSE {[p EXCEPT !.playing = TRUE,
                    !.decode_running = TRUE,
                    !.decode_thread = Min(free),
                    !.threads[Min(free)] = "loop"]}

pause(p) == [p EXCEPT !.playing = FALSE, !.decode_running = FALSE]

\* scrub_ended without line 228
scrub_ended_keeps_record(p) == IF p.was_playing_before_scrub THEN play(p) ELSE {p}

scrub_ended(p) ==
    IF p.was_playing_before_scrub
    THEN play([p EXCEPT !.was_playing_before_scrub = FALSE])
    ELSE {p}

load(p, path) ==
    LET was_playing == p.playing
        a == [p EXCEPT !.decode_running = FALSE, !.playing = FALSE]
        b == [join(a) EXCEPT !.decode_thread = 0]
        rate == IF SourceFps(path) = 0 THEN DefaultFps ELSE SourceFps(path)
        c == [b EXCEPT !.cap = path,
                       !.pos = 0,
                       !.total_frames = SourceFrames(path),
                       !.fps = rate,
                       !.duration = (SourceFrames(path) * TicksPerSecond) \div rate,
                       !.current_frame = 0]
    IN UNION {IF was_playing THEN play(q) ELSE {q} : q \in seek(c, 0, FALSE)}

VideoPlayer ==
    [cap |-> NoCap, pos |-> 0, current_frame |-> 0, total_frames |-> 0,
     fps |-> 24, duration |-> 0, playing |-> FALSE,
     decode_thread |-> 0, decode_running |-> FALSE,
     threads |-> [t \in Threads |-> "dead"],
     was_playing_before_scrub |-> FALSE, scrub_timer |-> FALSE,
     loop_in |-> 0, loop_out |-> 0]

\* ------------------------------------------------------ StructureExporter
basename(path) == path[Len(path)]

\* get_segment_key returning one key for every segment
get_segment_key_shared == IF current_segment = NoSegment THEN "" ELSE "segment"

get_segment_key == IF current_segment = NoSegment THEN "" ELSE basename(current_segment)

\* d[k] = v on a dict modelled as a function
put(d, k, v) == [x \in DOMAIN d \cup {k} |-> IF x = k THEN v ELSE d[x]]

\* the operation that ran last, its argument, and current_frame / playing
\* as they were when it was called
Op(name, arg) ==
    [op |-> name, arg |-> arg, cf0 |-> player.current_frame, playing0 |-> player.playing]

\* an operation of which only the name is recorded
Did(name) == [op |-> name, arg |-> 0, cf0 |-> 0, playing0 |-> FALSE]

Decoded(cf) == [op |-> "_decode_loop", arg |-> 0, cf0 |-> cf, playing0 |-> FALSE]

\* os.path.splitext(name)[0]
splitext(name) ==
    CASE name = "segment_01.mp4" -> "segment_01"
      [] name = "segment_02.mp4" -> "segment_02"
      [] name = "segment_03.mp4" -> "segment_03"
      [] OTHER -> name

\* f"{m}-{s:02d}" of a time in ticks
format_time_compact(t) ==
    LET secs == t \div TicksPerSecond
        m == secs \div 60
        sec == secs % 60
    IN ToString(m) \o "-" \o (IF sec < 10 THEN "0" ELSE "") \o ToString(sec)

\* the entry text is a sequence of tokens; " " is a run of whitespace
suggested_name(path, ip, op) ==
    <<splitext(basename(path)) \o "_" \o format_time_compact(ip)
        \o "_to_" \o format_time_compact(op)>>

update_output_name(ip, op) ==
    IF current_segment = NoSegment THEN output_name_var
    ELSE suggested_name(current_segment, ip, op)

NoExport ==
    [pc |-> "idle", res |-> "640", coarse_seek |-> 0, fine_seek |-> 0,
     clip_duration |-> 0, output_path |-> "", input |-> NoSegment,
     validated |-> NoSegment, e_bound |-> FALSE, started |-> 0]

\* ------------------------------------------------------------ index.json
Abs(n) == IF n < 0 THEN -n ELSE n

\* sorted(seq) of a list of numbers
RECURSIVE sorted(_)
sorted(seq) ==
    IF seq = <<>> THEN <<>>
    ELSE LET i == CHOOSE i \in DOMAIN seq :
                    /\ \A j \in DOMAIN seq : seq[i] <= seq[j]
                    /\ \A j \in 1..(i - 1) : seq[j] # seq[i]
         IN <<seq[i]>> \o sorted(SubSeq(seq, 1, i - 1) \o SubSeq(seq, i + 1, Len(seq)))

\* list.remove(x) at the position of the first occurrence
remove_at(seq, i) == SubSeq(seq, 1, i - 1) \o SubSeq(seq, i + 1, Len(seq))

NoFile == [kind |-> "absent", doc |-> <<>>]
\* what is left of the file when json.dump raised in the middle of writing
PartialFile == [kind |-> "partial", doc |-> <<>>]

\* a JSON document: numbers, arrays of numbers, objects keyed by strings
json_number(n) == [type |-> "number", value |-> n]

json_array(seq) == [type |-> "array", value |-> [i \in DOMAIN seq |-> json_number(seq[i])]]

\* an entry of the index is a dict of numbers, with a list under "markers"
json_entry(e) ==
    [f \in DOMAIN e |-> IF f = "markers" THEN json_array(e[f]) ELSE json_number(e[f])]

\* json.dump(self.index, f)
json_dump(d) == [kind |-> "json", doc |-> [k \in DOMAIN d |-> json_entry(d[k])]]

py_value(j) ==
    IF j.type = "number" THEN j.value
    ELSE [i \in DOMAIN j.value |-> j.value[i].value]

\* json.load keeping only the entries that have IN/OUT points
json_load_points_only(doc) ==
    [k \in {x \in DOMAIN doc : "in_point" \in DOMAIN doc[x]} |->
        [f \in DOMAIN doc[k] |-> py_value(doc[k][f])]]

\* json.load(f)
json_load(doc) == [k \in DOMAIN doc |-> [f \in DOMAIN doc[k] |-> py_value(doc[k][f])]]

\* load_index: {} when the file is missing or cannot be parsed
load_index == IF index_file.kind = "json" THEN json_load(index_file.doc) ELSE <<>>

\* how a call of save_index ends: written; makedirs or open raised; json.dump
\* raised after the file was truncated
WriteOutcomes == {"ok", "denied", "partial"}

\* the file after save_index wrote d / the paths after its makedirs
save_index(d, w) ==
    CASE w = "ok" -> json_dump(d)
      [] w = "partial" -> PartialFile
      [] OTHER -> index_file

makedirs(w) == IF w = "denied" THEN files ELSE files \cup {OUTPUT_DIR}

\* self.index[key][field] = v, creating the entry
index_set(d, key, field, v) ==
    put(d, key, put(IF key \in DOMAIN d THEN d[key] ELSE <<>>, field, v))

\* load_markers_for_segment
load_markers_for_segment(key) ==
    IF key # "" /\ key \in DOMAIN index
    THEN IF "markers" \in DOMAIN index[key] THEN sorted(index[key].markers) ELSE <<>>
    ELSE <<>>

\* Tk's timer queue: the time in ms that is left for each pending
\* _on_scrub_end and _update_ui_loop callback (the newest last), and the
\* time since the latest slider seek and since playing last went down,
\* each counted only up to the first value above the delay it is compared
\* with
NoTimers ==
    [scrub |-> <<>>, ui |-> <<>>,
     since_slider |-> ScrubDelay, since_stop |-> UiDelay + UiDelay]

\* time.perf_counter() and next_frame_time of a decode loop, and of its
\* latest iteration: whether it slept, whether it reset the target
NoPacing == [now |-> 0, next_frame_time |-> 0, slept |-> FALSE, reset |-> FALSE]

Init ==
    /\ player = VideoPlayer
    /\ current_segment = NoSegment
    /\ in_point = 0
    /\ out_point = 0
    /\ index = <<>>
    /\ last = Did("init")
    /\ output_name_var = <<"clip_01">>
    /\ resolution_var = "640"
    /\ status_var = "Ready"
    /\ export_btn = "normal"
    /\ export = NoExport
    /\ after_queue = <<>>
    /\ files = {}
    /\ markers = <<>>
    /\ index_file = NoFile
    /\ segment_var = "(no segments)"
    /\ poll_timer = TRUE
    /\ tk = NoTimers
    /\ pace = NoPacing
    /\ shown = <<>>

load_video_effect(path) ==
    /\ current_segment' = path
    /\ \E q \in load(player, path) :
         LET key == basename(path)
             saved == key \in DOMAIN index /\ "in_point" \in DOMAIN index[key]
             ip == IF saved THEN index[key].in_point ELSE 0
             op == IF saved THEN index[key].out_point ELSE q.duration
         IN /\ in_point' = ip
            /\ out_point' = op
            /\ player' = [q EXCEPT !.loop_in = ip,
                                   !.loop_out = IF op < q.duration THEN op ELSE 0]
    /\ status_var' = "Loaded: " \o basename(path)
    /\ output_name_var' = suggested_name(path, in_point', out_point')
    /\ markers' = load_markers_for_segment(basename(path))
    /\ last' = Did("load_video")
    /\ UNCHANGED <<index, evars, files, index_file, poll_timer, pace>>

\* load_video when the timer queue is not looked at
load_video(path) == load_video_effect(path) /\ UNCHANGED tk

\* File > Open: the selection of the segment list stays as it is
open_file(path) == load_video(path) /\ UNCHANGED segment_var

SliderValues == IF player.total_frames >= 1 THEN 0..(player.total_frames - 1) ELSE {0}

on_slider_effect(value) ==
    /\ player.cap # NoCap
    /\ \E q \in seek(player, value, TRUE) :
         player' = [q EXCEPT !.scrub_timer = TRUE]
    /\ last' = Op("on_slider", value)
    /\ UNCHANGED <<current_segment, in_point, out_point, index, output_name_var, status_var, uvars>>

on_slider(value) == on_slider_effect(value) /\ UNCHANGED tk

on_scrub_end_effect ==
    /\ player.scrub_timer
    /\ player' \in scrub_ended([player EXCEPT !.scrub_timer = FALSE])
    /\ last' = Op("on_scrub_end", 0)
    /\ UNCHANGED <<current_segment, in_point, out_point, index, output_name_var, status_var, uvars>>

on_scrub_end == on_scrub_end_effect /\ UNCHANGED tk

step(frames) ==
    /\ player.cap # NoCap
    /\ LET new_frame == clamp(player.current_frame + frames, player.total_frames)
       IN player' \in seek(player, new_frame, FALSE)
    /\ last' = Op("step", frames)
    /\ UNCHANGED <<current_segment, in_point, out_point, index, output_name_var, status_var, xvars>>

toggle_play_effect ==
    /\ IF player.playing
       THEN player' = pause(player)
       ELSE player' \in play(player)
    /\ last' = Did("toggle_play")
    /\ UNCHANGED <<current_segment, in_point, out_point, index, output_name_var, status_var, uvars>>

toggle_play == toggle_play_effect /\ UNCHANGED tk

\* set_in_point with the write of the index undone in memory when it fails
set_in_point_rollback(w) ==
    LET t == get_current_time(player)
        key == get_segment_key
        failed == key # "" /\ w # "ok"
    IN /\ in_point' = IF failed THEN in_point ELSE t
       /\ player' = IF failed THEN player ELSE [player EXCEPT !.loop_in = t]
       /\ index' = IF key = "" \/ failed THEN index
                   ELSE index_set(index_set(index, key, "in_point", t),
                                  key, "out_point", out_point)
       /\ index_file' = IF key = "" THEN index_file ELSE save_index(index', w)
       /\ files' = IF key = "" THEN files ELSE makedirs(w)
       /\ output_name_var' = IF failed THEN output_name_var
                             ELSE update_output_name(t, out_point)
       /\ last' = Did("set_in_point")
       /\ UNCHANGED <<current_segment, out_point, status_var, evars, markers,
                      segment_var, poll_timer, tk, pace>>

\* set_in_point; w is how the write of the index file ends.  An exception
\* of save_index leaves the handler before update_output_name.
set_in_point(w) ==
    LET t == get_current_time(player)
        key == get_segment_key
    IN /\ in_point' = t
       /\ player' = [player EXCEPT !.loop_in = t]
       /\ index' = IF key = "" THEN index
                   ELSE index_set(index_set(index, key, "in_point", t),
                                  key, "out_point", out_point)
       /\ index_file' = IF key = "" THEN index_file ELSE save_index(index', w)
       /\ files' = IF key = "" THEN files ELSE makedirs(w)
       /\ output_name_var' = IF key # "" /\ w # "ok" THEN output_name_var
                             ELSE update_output_name(t, out_point)
       /\ last' = Did("set_in_point")
       /\ UNCHANGED <<current_segment, out_point, status_var, evars, markers,
                      segment_var, poll_timer, tk, pace>>

set_out_point(w) ==
    LET t == get_current_time(player)
        key == get_segment_key
    IN /\ out_point' = t
       /\ player' = [player EXCEPT !.loop_out = t]
       /\ index' = IF key = "" THEN index
                   ELSE index_set(index_set(index, key, "in_point", in_point),
                                  key, "out_point", t)
       /\ index_file' = IF key = "" THEN index_file ELSE save_index(index', w)
       /\ files' = IF key = "" THEN files ELSE makedirs(w)
       /\ output_name_var' = IF key # "" /\ w # "ok" THEN output_name_var
                             ELSE update_output_name(in_point, t)
       /\ last' = Did("set_out_point")
       /\ UNCHANGED <<current_segment, in_point, status_var, evars, markers,
                      segment_var, poll_timer, tk, pace>>

\* cap.set(CAP_PROP_POS_MSEC, t); current_frame = cap.get(CAP_PROP_POS_FRAMES);
\* show_frame()
goto(p, t) ==
    show_frame([p EXCEPT !.pos = FrameAt(p, t), !.current_frame = FrameAt(p, t)])

goto_in ==
    /\ player.cap # NoCap
    /\ player' = goto(player, in_point)
    /\ last' = Did("goto_in")
    /\ UNCHANGED <<current_segment, in_point, out_point, index, output_name_var, status_var, xvars>>

goto_out ==
    /\ player.cap # NoCap
    /\ player' = goto(player, out_point)
    /\ last' = Did("goto_out")
    /\ UNCHANGED <<current_segment, in_point, out_point, index, output_name_var, status_var, xvars>>

\* _execute_command(cmd), cmd.split() == parts: <<action>> or <<action, n>>
execute_command(parts) ==
    LET action == parts[1] IN
    /\ CASE action = "step" /\ Len(parts) > 1 ->
              /\ player.cap # NoCap
              /\ player' \in seek(player,
                     clamp(player.current_frame + parts[2], player.total_frames), FALSE)
         [] action = "play" ->
              IF ~player.playing THEN player' \in play(player) ELSE player' = player
         [] action = "pause" ->
              IF player.playing THEN player' = pause(player) ELSE player' = player
         [] action = "seek" /\ Len(parts) > 1 ->
              player' \in seek(player, parts[2], FALSE)
         [] OTHER -> player' = player
    /\ last' = IF action = "seek" /\ Len(parts) > 1
               THEN [Did(action) EXCEPT !.arg = parts[2]] ELSE Did(action)
    /\ UNCHANGED <<current_segment, in_point, out_point, index, output_name_var, status_var, xvars>>

\* ---------------------------------------------------------------- markers
\* abs(m - t) < 0.1
near(m, t) == ToleranceDen * Abs(m - t) < TicksPerSecond

\* save_markers_for_segment: the index entry, the file and the directory
save_markers_for_segment(ms, w) ==
    LET key == get_segment_key IN
    IF key = "" THEN UNCHANGED <<index, index_file, files>>
    ELSE /\ index' = index_set(index, key, "markers", sorted(ms))
         /\ index_file' = save_index(index', w)
         /\ files' = makedirs(w)

\* add_marker with the duplicate test on equal times only
add_marker_exact(w) ==
    LET t == get_current_time(player) IN
    /\ IF player.cap = NoCap \/ \E i \in DOMAIN markers : markers[i] = t
       THEN UNCHANGED <<markers, index, index_file, files>>
       ELSE /\ markers' = sorted(Append(markers, t))
            /\ save_markers_for_segment(markers', w)
    /\ last' = Did("add_marker")
    /\ UNCHANGED <<player, current_segment, in_point, out_point, output_name_var,
                   status_var, evars, segment_var, poll_timer, tk, pace>>

add_marker(w) ==
    LET t == get_current_time(player) IN
    /\ IF player.cap = NoCap \/ \E i \in DOMAIN markers : near(markers[i], t)
       THEN UNCHANGED <<markers, index, index_file, files>>
       ELSE /\ markers' = sorted(Append(markers, t))
            /\ save_markers_for_segment(markers', w)
    /\ last' = Did("add_marker")
    /\ UNCHANGED <<player, current_segment, in_point, out_point, output_name_var,
                   status_var, evars, segment_var, poll_timer, tk, pace>>

\* min with the key m - t
nearest_by_difference(ms, t) ==
    CHOOSE i \in DOMAIN ms :
        /\ \A j \in DOMAIN ms : ms[i] - t <= ms[j] - t
        /\ \A j \in 1..(i - 1) : ms[j] - t > ms[i] - t

\* min(self.markers, key=lambda m: abs(m - t)): the position of the first
\* marker among those nearest to t
nearest(ms, t) ==
    CHOOSE i \in DOMAIN ms :
        /\ \A j \in DOMAIN ms : Abs(ms[i] - t) <= Abs(ms[j] - t)
        /\ \A j \in 1..(i - 1) : Abs(ms[j] - t) > Abs(ms[i] - t)

\* list.remove(x): the first element equal to x goes
remove(ms, x) == remove_at(ms, CHOOSE i \in DOMAIN ms :
                                   ms[i] = x /\ \A j \in 1..(i - 1) : ms[j] # x)

delete_marker(w) ==
    LET t == get_current_time(player) IN
    /\ IF markers = <<>> \/ player.cap = NoCap
       THEN UNCHANGED <<markers, index, index_file, files>>
       ELSE /\ markers' = remove(markers, markers[nearest(markers, t)])
            /\ save_markers_for_segment(markers', w)
    /\ last' = Did("delete_marker")
    /\ UNCHANGED <<player, current_segment, in_point, out_point, output_name_var,
                   status_var, evars, segment_var, poll_timer, tk, pace>>

\* the marker prev_marker jumps to: the last one before t - 0.05, else the last
prev_target(ms, t) ==
    LET prev == {i \in DOMAIN ms : OffsetDen * ms[i] < OffsetDen * t - TicksPerSecond} IN
    IF prev # {} THEN ms[CHOOSE i \in prev : \A j \in prev : j <= i] ELSE ms[Len(ms)]

\* the marker next_marker jumps to: the first one after t + 0.05, else the first
next_target(ms, t) ==
    LET nxt == {i \in DOMAIN ms : OffsetDen * ms[i] > OffsetDen * t + TicksPerSecond} IN
    IF nxt # {} THEN ms[Min(nxt)] ELSE ms[1]

prev_marker ==
    /\ markers # <<>> /\ player.cap # NoCap
    /\ LET target == prev_target(markers, get_current_time(player))
       IN player' \in seek(player, FrameAt(player, target), FALSE)
    /\ last' = Did("prev_marker")
    /\ UNCHANGED <<current_segment, in_point, out_point, index, output_name_var, status_var, xvars>>

next_marker ==
    /\ markers # <<>> /\ player.cap # NoCap
    /\ LET target == next_target(markers, get_current_time(player))
       IN player' \in seek(player, FrameAt(player, target), FALSE)
    /\ last' = Did("next_marker")
    /\ UNCHANGED <<current_segment, in_point, out_point, index, output_name_var, status_var, xvars>>

\* ----------------------------------------------------------- segment list
\* f"{int(dur//60)}:{int(dur%60):02d}" of the duration ffprobe reports
dur_str(path) ==
    IF SourceFrames(path) = 0 THEN "??:??"
    ELSE LET fps == IF SourceFps(path) = 0 THEN DefaultFps ELSE SourceFps(path)
             secs == SourceFrames(path) \div fps
         IN ToString(secs \div 60) \o ":"
              \o (IF secs % 60 < 10 THEN "0" ELSE "") \o ToString(secs % 60)

\* the segment_*.mp4 files of the segment directory, sorted by name
SegmentFiles == <<SegA, SegLong, SegBad>>

\* load_segments: one entry "name (m:ss)" per file
segment_values ==
    [i \in DOMAIN SegmentFiles |->
        basename(SegmentFiles[i]) \o " (" \o dur_str(SegmentFiles[i]) \o ")"]

\* os.path.join(SEGMENT_DIR, selection.split(" ")[0])
selection_path(selection) ==
    SegmentFiles[CHOOSE i \in DOMAIN SegmentFiles : segment_values[i] = selection]

\* segment_values.index(current), -1 when it is not in the list; counted from 0
get_current_segment_index ==
    IF \E i \in DOMAIN segment_values : segment_values[i] = segment_var
    THEN Min({i \in DOMAIN segment_values : segment_values[i] = segment_var}) - 1
    ELSE -1

\* segment_var.set(value) and the write trace on it: on_segment_changed
select_segment(value) ==
    /\ segment_var' = value
    /\ load_video(selection_path(value))

\* prev_segment that wraps to the last entry
prev_segment_wraps ==
    LET current == get_current_segment_index IN
    IF current > 0
    THEN select_segment(segment_values[current])
    ELSE select_segment(segment_values[Len(segment_values)])

\* a call that does nothing still counts as the last operation
prev_segment ==
    LET current == get_current_segment_index IN
    IF current > 0
    THEN select_segment(segment_values[current])
    ELSE /\ last' = Did("prev_segment")
         /\ UNCHANGED <<player, current_segment, in_point, out_point, index,
                        output_name_var, status_var, xvars>>

next_segment ==
    LET current == get_current_segment_index IN
    IF current < Len(segment_values) - 1
    THEN select_segment(segment_values[current + 2])
    ELSE /\ last' = Did("next_segment")
         /\ UNCHANGED <<player, current_segment, in_point, out_point, index,
                        output_name_var, status_var, xvars>>

\* the state after construction when the segment directory has files:
\* load_segments selects the first entry, which loads it
InitSegments ==
    LET value == segment_values[1]
        path == selection_path(value)
        q == CHOOSE q \in load(VideoPlayer, path) : TRUE
    IN /\ player = [q EXCEPT !.loop_in = 0, !.loop_out = 0]
       /\ current_segment = path
       /\ in_point = 0
       /\ out_point = q.duration
       /\ index = <<>>
       /\ last = Did("load_video")
       /\ output_name_var = suggested_name(path, 0, q.duration)
       /\ resolution_var = "640"
       /\ status_var = "Loaded: " \o basename(path)
       /\ export_btn = "normal"
       /\ export = NoExport
       /\ after_queue = <<>>
       /\ files = {}
       /\ shown = <<>>
       /\ markers = <<>>
       /\ index_file = NoFile
       /\ segment_var = value
       /\ poll_timer = TRUE
       /\ tk = NoTimers
       /\ pace = NoPacing

\* --------------------------------------------------------- remote commands
\* a word of a command is a sequence of characters
DigitChars == <<"0", "1", "2", "3", "4", "5", "6", "7", "8", "9">>

digit_value(c) == (CHOOSE i \in DOMAIN DigitChars : DigitChars[i] = c) - 1

is_digits(w) == w # <<>> /\ \A i \in DOMAIN w : \E d \in DOMAIN DigitChars : DigitChars[d] = w[i]

\* int(w) that drops what is not a digit
int_ok_lenient(w) == w # <<>>

\* int(w) does not raise: an optional sign and decimal digits
int_ok(w) ==
    IF w # <<>> /\ w[1] \in {"-", "+"} THEN is_digits(Tail(w)) ELSE is_digits(w)

RECURSIVE digits_value(_)
digits_value(w) ==
    IF w = <<>> THEN 0
    ELSE LET c == w[Len(w)]
             rest == digits_value(SubSeq(w, 1, Len(w) - 1))
         IN IF \E d \in DOMAIN DigitChars : DigitChars[d] = c
            THEN rest * 10 + digit_value(c) ELSE rest

int_value(w) ==
    IF w # <<>> /\ w[1] = "-" THEN -digits_value(Tail(w))
    ELSE IF w # <<>> /\ w[1] = "+" THEN digits_value(Tail(w))
    ELSE digits_value(w)

\* str(n)
RECURSIVE str_digits(_)
str_digits(n) ==
    IF n < 10 THEN <<DigitChars[n + 1]>>
    ELSE str_digits(n \div 10) \o <<DigitChars[(n % 10) + 1]>>

str(n) == IF n < 0 THEN <<"-">> \o str_digits(-n) ELSE str_digits(n)

\* str.lower() of the first word
lower(word) ==
    CASE word = "PLAY" -> "play"
      [] word = "Seek" -> "seek"
      [] OTHER -> word

\* a command that has no effect
ignore_command ==
    /\ last' = Did("_poll_commands")
    /\ UNCHANGED <<player, current_segment, in_point, out_point, index,
                   output_name_var, status_var, xvars>>

\* _poll_commands with the command file holding cmd (split into words, <<>>
\* for an empty file): the file is removed, the command executed inside
\* try/except, and the timer armed again
poll_commands(cmd) ==
    /\ poll_timer
    /\ poll_timer' = TRUE
    /\ IF cmd = <<>> THEN ignore_command
       ELSE LET action == lower(cmd[1]) IN
            CASE action \in {"step", "seek"} /\ Len(cmd) > 1 ->
                   IF int_ok(cmd[2])
                   THEN execute_command(<<action, int_value(cmd[2])>>)
                   ELSE ignore_command
              [] action \in {"play", "pause"} -> execute_command(<<action>>)
              [] action = "next" -> next_segment
              [] action = "prev" -> prev_segment
              [] action = "setin" -> \E w \in WriteOutcomes : set_in_point(w)
              [] action = "setout" -> \E w \in WriteOutcomes : set_out_point(w)
              [] action = "gotoin" -> IF player.cap # NoCap THEN goto_in ELSE ignore_command
              [] action = "gotoout" -> IF player.cap # NoCap THEN goto_out ELSE ignore_command
              [] OTHER -> ignore_command

\* ----------------------------------------------------------------- export
RECURSIVE lstrip(_)
lstrip(name) ==
    IF name # <<>> /\ Head(name) = " " THEN lstrip(Tail(name)) ELSE name

RECURSIVE rstrip(_)
rstrip(name) ==
    IF name # <<>> /\ name[Len(name)] = " "
    THEN rstrip(SubSeq(name, 1, Len(name) - 1)) ELSE name

\* str.strip()
strip(name) == rstrip(lstrip(name))

RECURSIVE text(_)
text(name) == IF name = <<>> THEN "" ELSE Head(name) \o text(Tail(name))

\* the user types into the output name entry / picks a resolution
set_output_name(name) ==
    /\ output_name_var' = name
    /\ UNCHANGED <<player, current_segment, in_point, out_point, index, last,
                   status_var, xvars>>

set_resolution(res) ==
    /\ resolution_var' = res
    /\ UNCHANGED <<player, current_segment, in_point, out_point, index, last,
                   output_name_var, status_var, export_btn, export, after_queue,
                   files, shown, mvars>>

\* the validation with the name tested before the range
export_error_name_first ==
    IF current_segment = NoSegment THEN "No video loaded"
    ELSE IF strip(output_name_var) = <<>> THEN "Please enter an output name"
    ELSE IF out_point <= in_point THEN "OUT point must be after IN point"
    ELSE ""

\* the validation of export_clip: the error it shows, "" when it shows none
export_error ==
    IF current_segment = NoSegment THEN "No video loaded"
    ELSE IF out_point <= in_point THEN "OUT point must be after IN point"
    ELSE IF strip(output_name_var) = <<>> THEN "Please enter an output name"
    ELSE ""

max_dur(res) == IF res = "640" THEN MaxDur640 ELSE MaxDur320

\* duration >= max_dur
exceeds_max_dur_inclusive ==
    out_point - in_point >= max_dur(resolution_var) * TicksPerSecond

\* duration > max_dur
exceeds_max_dur ==
    out_point - in_point > max_dur(resolution_var) * TicksPerSecond

Dialog(kind, msg) == [kind |-> kind, text |-> msg]

\* coarse_seek without the clamp at 0
coarse_seek_unclamped(ip) == ip - CoarseMargin * TicksPerSecond

\* the position of the seek before the input is opened, for IN point ip
coarse_seek(ip) == Max2(0, ip - CoarseMargin * TicksPerSecond)

\* export_clip; yes is the answer to the askyesno dialog if it comes up.
\* The EXPORT button invokes it only while the button is enabled.
export_clip(yes) ==
    /\ export_btn = "normal"
    /\ IF export_error # ""
       THEN /\ shown' = <<Dialog("showerror", export_error)>>
            /\ UNCHANGED <<status_var, export_btn, export, files>>
       ELSE IF exceeds_max_dur /\ ~yes
       THEN /\ shown' = <<Dialog("askyesno", "Warning")>>
            /\ UNCHANGED <<status_var, export_btn, export, files>>
       ELSE LET coarse == coarse_seek(in_point) IN
            /\ export.started < MaxExports
            /\ shown' = IF exceeds_max_dur
                        THEN <<Dialog("askyesno", "Warning")>> ELSE <<>>
            /\ files' = files \cup {OUTPUT_DIR}
            /\ status_var' = "Exporting..."
            /\ export_btn' = "disabled"
            /\ export' = [pc |-> "start",
                          res |-> resolution_var,
                          coarse_seek |-> coarse,
                          fine_seek |-> in_point - coarse,
                          clip_duration |-> out_point - in_point,
                          output_path |-> OUTPUT_DIR \o "/"
                                            \o text(strip(output_name_var)) \o ".mov",
                          input |-> NoSegment,
                          validated |-> current_segment,
                          e_bound |-> FALSE,
                          started |-> export.started + 1]
    /\ UNCHANGED <<player, current_segment, in_point, out_point, index, last,
                   output_name_var, resolution_var, after_queue, mvars>>

XUnchanged ==
    UNCHANGED <<player, current_segment, in_point, out_point, index, last,
                output_name_var, resolution_var, mvars>>

\* do_export up to the result of the transcoder: subprocess.run raises,
\* or returns a nonzero status, or a zero status with the output written
do_export_run ==
    /\ export.pc = "start"
    /\ \E result \in {"raise", "nonzero", "zero"} :
         CASE result = "raise" ->
                /\ export' = [export EXCEPT !.pc = "except", !.e_bound = TRUE,
                                            !.input = current_segment]
                /\ UNCHANGED <<after_queue, files>>
           [] result = "nonzero" ->
                /\ export' = [export EXCEPT !.pc = "finally", !.input = current_segment]
                /\ after_queue' = after_queue \o <<"showerror_stderr", "status_failed">>
                /\ UNCHANGED files
           [] OTHER ->
                /\ export' = [export EXCEPT !.pc = "thumb", !.input = current_segment]
                /\ files' = files \cup {export.output_path}
                /\ UNCHANGED after_queue
    /\ XUnchanged
    /\ UNCHANGED <<status_var, export_btn, shown>>

\* the thumbnail step and the success callbacks
do_export_thumb ==
    /\ export.pc = "thumb"
    /\ \E result \in {"raise", "thumb", "no_thumb"} :
         CASE result = "raise" ->
                /\ export' = [export EXCEPT !.pc = "except", !.e_bound = TRUE]
                /\ UNCHANGED after_queue
           [] OTHER ->
                /\ export' = [export EXCEPT !.pc = "finally"]
                /\ after_queue' = after_queue
                      \o (IF result = "thumb" THEN <<"set_icon">> ELSE <<>>)
                      \o <<"showinfo", "status_complete", "refresh_clip_list">>
    /\ XUnchanged
    /\ UNCHANGED <<status_var, export_btn, shown, files>>

\* the except clause hands over its two callbacks
do_export_except ==
    /\ export.pc = "except"
    /\ export' = [export EXCEPT !.pc = "except_end"]
    /\ after_queue' = after_queue \o <<"showerror_e", "status_failed">>
    /\ XUnchanged
    /\ UNCHANGED <<status_var, export_btn, shown, files>>

\* leaving the except clause unbinds e; the finally clause hands over the
\* callback that enables the button, and the thread ends
do_export_finally ==
    /\ export.pc \in {"finally", "except_end"}
    /\ export' = [export EXCEPT !.pc = "done", !.e_bound = FALSE]
    /\ after_queue' = Append(after_queue, "enable_export_btn")
    /\ XUnchanged
    /\ UNCHANGED <<status_var, export_btn, shown, files>>

\* the main loop runs the oldest callback given to root.after(0, ...)
run_after ==
    /\ after_queue # <<>>
    /\ after_queue' = Tail(after_queue)
    /\ LET cb == Head(after_queue) IN
       /\ shown' =
            CASE cb = "showerror_stderr" ->
                   Append(shown, Dialog("showerror", "Export failed: stderr"))
              [] cb = "showerror_e" ->
                   \* str(e) raises NameError once the thread left the except clause
                   IF export.e_bound
                   THEN Append(shown, Dialog("showerror", "str(e)"))
                   ELSE shown
              [] cb = "showinfo" ->
                   Append(shown, Dialog("showinfo", "Exported: " \o export.output_path))
              [] cb = "status_failed" -> Append(shown, Dialog("status", "Export failed"))
              [] cb = "status_complete" -> Append(shown, Dialog("status", "Export complete"))
              [] OTHER -> shown
       /\ status_var' =
            CASE cb = "status_failed" -> "Export failed"
              [] cb = "status_complete" -> "Export complete"
              [] OTHER -> status_var
       /\ export_btn' = IF cb = "enable_export_btn" THEN "normal" ELSE export_btn
       \* the last callback of an export releases the closure of do_export
       /\ export' = IF cb = "enable_export_btn"
                    THEN [NoExport EXCEPT !.started = export.started]
                    ELSE export
    /\ XUnchanged
    /\ UNCHANGED files

\* ------------------------------------------------------ the decode threads
decode_loop_test(t) ==
    /\ player.threads[t] = "loop"
    /\ player' = [player EXCEPT !.threads[t] =
                     IF player.decode_running /\ player.cap # NoCap
                     THEN "body" ELSE "dead"]
    /\ last' = Decoded(0)
    /\ UNCHANGED <<current_segment, in_point, out_point, index, output_name_var, status_var, xvars>>

decode_loop_body(t) ==
    /\ player.threads[t] = "body"
    /\ player' = thread_iteration(player, t)
    /\ last' = Decoded(player.current_frame)
    /\ UNCHANGED <<current_segment, in_point, out_point, index, output_name_var, status_var, xvars>>

\* cap.read() or the frame callback raises in an iteration of thread t:
\* the except clause prints the error and breaks out of the loop
decode_loop_raise(t) ==
    /\ player.threads[t] = "body"
    /\ player' = [player EXCEPT !.threads[t] = "dead"]
    /\ last' = Decoded(player.current_frame)
    /\ UNCHANGED <<current_segment, in_point, out_point, index, output_name_var, status_var, xvars>>

\* ------------------------------------------------------------------ pacing
\* frame_duration = 1.0 / self.fps, in units of the clock
frame_duration == FrameInterval

\* the pacing of an iteration without the reset of lines 304-306
pace_iteration_no_reset(c, work, over) ==
    LET target == c.next_frame_time + frame_duration
        read == c.now + work
        sleep_time == target - read
    IN IF sleep_time > 0
       THEN [now |-> read + sleep_time + over, next_frame_time |-> target,
             slept |-> TRUE, reset |-> FALSE]
       ELSE [now |-> read, next_frame_time |-> target,
             slept |-> FALSE, reset |-> FALSE]

\* lines 300-306 of an iteration whose read and frame callback took work
\* units; time.sleep returns over units after the time it was asked for
pace_iteration(c, work, over) ==
    LET target == c.next_frame_time + frame_duration
        read == c.now + work
        sleep_time == target - read
    IN IF sleep_time > 0
       THEN [now |-> read + sleep_time + over, next_frame_time |-> target,
             slept |-> TRUE, reset |-> FALSE]
       ELSE IF sleep_time < -frame_duration
       THEN [now |-> read, next_frame_time |-> read,
             slept |-> FALSE, reset |-> TRUE]
       ELSE [now |-> read, next_frame_time |-> target,
             slept |-> FALSE, reset |-> FALSE]

\* a decode loop starts at time pace.now + delay: line 277
decode_loop_start(delay) ==
    /\ pace.now + delay <= MaxTime
    /\ pace' = [now |-> pace.now + delay, next_frame_time |-> pace.now + delay,
                slept |-> FALSE, reset |-> FALSE]
    /\ UNCHANGED <<player, current_segment, in_point, out_point, index, last,
                   output_name_var, status_var, evars, files, markers,
                   index_file, segment_var, poll_timer, tk>>

\* one iteration of the loop on the clock
decode_loop_pacing(work, over) ==
    /\ pace.now <= MaxTime
    /\ pace' = pace_iteration(pace, work, over)
    /\ UNCHANGED <<player, current_segment, in_point, out_point, index, last,
                   output_name_var, status_var, evars, files, markers,
                   index_file, segment_var, poll_timer, tk>>

\* ------------------------------------------------------- Tk's timer queue
\* widget.after(ms, callback): one more pending callback, due in ms
after(queue, ms) == Append(queue, ms)

\* on_slider without lines 650-651: the pending timer is left in the queue
after_cancel_skipped(queue) == queue

\* root.after_cancel(self.player._scrub_timer): the attribute holds the id
\* that the latest after() returned, the newest entry of the queue
after_cancel(queue) ==
    IF queue = <<>> THEN queue ELSE SubSeq(queue, 1, Len(queue) - 1)

\* the time since playing went down, after a handler of the main thread
since_stop_after ==
    IF player.playing \/ player'.playing THEN 0 ELSE tk.since_stop

\* the callbacks that are due
Due(queue) == {i \in 1..Len(queue) : queue[i] = 0}

\* play() calls _update_ui_loop(), which arms its timer as playing is set
update_ui_loop_called(queue, called) ==
    IF called THEN after(queue, UiDelay) ELSE queue

on_slider_tk(value) ==
    /\ on_slider_effect(value)
    /\ tk' = [tk EXCEPT
                !.scrub = after(IF player.scrub_timer THEN after_cancel(@) ELSE @,
                                ScrubDelay),
                !.since_slider = 0,
                !.since_stop = since_stop_after]

\* Tk runs a due _on_scrub_end
on_scrub_end_tk ==
    /\ Due(tk.scrub) # {}
    /\ player.was_playing_before_scrub => Len(tk.ui) < MaxUiTimers
    /\ on_scrub_end_effect
    /\ \E i \in Due(tk.scrub) :
         tk' = [tk EXCEPT
                  !.scrub = remove_at(@, i),
                  !.ui = update_ui_loop_called(@, player.was_playing_before_scrub),
                  !.since_stop = since_stop_after]

toggle_play_tk ==
    /\ ~player.playing => Len(tk.ui) < MaxUiTimers
    /\ toggle_play_effect
    /\ tk' = [tk EXCEPT !.ui = update_ui_loop_called(@, ~player.playing),
                        !.since_stop = since_stop_after]

\* File > Open; load() calls play() when the player was playing
open_file_tk(path) ==
    /\ player.playing => Len(tk.ui) < MaxUiTimers
    /\ load_video_effect(path)
    /\ tk' = [tk EXCEPT !.ui = update_ui_loop_called(@, player.playing),
                        !.since_stop = since_stop_after]
    /\ UNCHANGED segment_var

\* Tk runs a due _update_ui_loop: it refreshes slider and label and, when
\* playing is set, arms its timer again
update_ui_loop ==
    /\ \E i \in Due(tk.ui) :
         tk' = [tk EXCEPT !.ui = update_ui_loop_called(remove_at(@, i), player.playing)]
    /\ UNCHANGED <<player, current_segment, in_point, out_point, index, last,
                   output_name_var, status_var, uvars>>

\* UiDelay ms pass with the main loop idle: Tk has run every callback that
\* was due
Tick ==
    /\ Due(tk.scrub) = {} /\ Due(tk.ui) = {}
    /\ tk' = [scrub |-> [i \in 1..Len(tk.scrub) |-> tk.scrub[i] - UiDelay],
              ui |-> [i \in 1..Len(tk.ui) |-> tk.ui[i] - UiDelay],
              since_slider |-> Min2(tk.since_slider + UiDelay, ScrubDelay),
              since_stop |-> IF player.playing THEN 0
                             ELSE Min2(tk.since_stop + UiDelay, UiDelay + UiDelay)]
    /\ UNCHANGED <<player, current_segment, in_point, out_point, index, last,
                   output_name_var, status_var, uvars>>

\* ---------------------------------------------------------- specification
StepInputs == {-24, -1, 1, 24}
SeekInputs == {-1, 1, ClipFrames + 1}
Commands ==
    {<<"play">>, <<"pause">>} \cup {<<"seek", f>> : f \in SeekInputs}

Next ==
    \/ \E path \in {SegA, SegB} : open_file(path)
    \/ \E v \in SliderValues : on_slider(v)
    \/ on_scrub_end
    \/ \E n \in StepInputs : step(n)
    \/ toggle_play
    \/ \E c \in Commands : execute_command(c)
    \/ \E t \in Threads : decode_loop_test(t)
    \/ \E t \in Threads : decode_loop_body(t)

Spec == Init /\ [][Next]_vars

\* playback with a loop region: in/out points set, restored and jumped to
NextLoop ==
    \/ \E path \in {SegA, SegB} : open_file(path)
    \/ \E n \in {-1, 1} : step(n)
    \/ toggle_play
    \/ set_in_point("ok")
    \/ set_out_point("ok")
    \/ goto_in
    \/ goto_out
    \/ \E t \in Threads : decode_loop_test(t)
    \/ \E t \in Threads : decode_loop_body(t)

SpecLoop == Init /\ [][NextLoop]_vars

\* the export form and pipeline on a source longer than both duration limits
ExportSeekInputs == {1, MaxDur640 * 24 + 1, MaxDur320 * 24 + 1}
NameInputs == {<<" ">>, <<" ", "clip_02", " ">>}

\* the form is edited between exports; a segment may be loaded at any time
FormIdle == export_btn = "normal"

NextExport ==
    \/ open_file(SegLong)
    \/ FormIdle /\ \E f \in ExportSeekInputs : execute_command(<<"seek", f>>)
    \/ FormIdle /\ set_in_point("ok")
    \/ FormIdle /\ set_out_point("ok")
    \/ FormIdle /\ \E name \in NameInputs : set_output_name(name)
    \/ FormIdle /\ \E res \in {"640", "320"} : set_resolution(res)
    \/ \E yes \in BOOLEAN : export_clip(yes)
    \/ do_export_run
    \/ do_export_thumb
    \/ do_export_except
    \/ do_export_finally
    \/ run_after

SpecExport == Init /\ [][NextExport]_vars

\* loading sources that open and one that does not, with playback
NextLoad ==
    \/ \E path \in {SegA, SegB, SegBad} : open_file(path)
    \/ \E n \in {-1, 1} : step(n)
    \/ toggle_play
    \/ \E t \in Threads : decode_loop_test(t)
    \/ \E t \in Threads : decode_loop_body(t)

SpecLoad == Init /\ [][NextLoad]_vars

\* markers on two files that share an index entry
NextMarkers ==
    \/ \E path \in {SegA, SegB} : open_file(path)
    \/ \E n \in {-1, 1} : step(n)
    \/ \E w \in WriteOutcomes : add_marker(w)
    \/ \E w \in WriteOutcomes : delete_marker(w)
    \/ prev_marker
    \/ next_marker

SpecMarkers == Init /\ [][NextMarkers]_vars

\* IN/OUT points and markers with an index file that may fail to be written:
\* the buttons with a write that succeeds or breaks off, the remote setin
\* also with an output directory that cannot be created
NextIndex ==
    \/ open_file(SegB)
    \/ \E n \in {-1, 1} : step(n)
    \/ \E w \in {"ok", "partial"} : add_marker(w)
    \/ \E w \in {"ok", "partial"} : delete_marker(w)
    \/ \E w \in {"ok", "partial"} : set_in_point(w)
    \/ \E w \in {"ok", "partial"} : set_out_point(w)
    \/ \E c \in {<<"setin">>, <<"gotoin">>, <<"gotoout">>} : poll_commands(c)

SpecIndex == Init /\ [][NextIndex]_vars

\* navigation in the segment list
NextSegments ==
    \/ next_segment
    \/ prev_segment
    \/ \E c \in {<<"next">>, <<"prev">>} : poll_commands(c)
    \/ open_file(SegB)
    \/ \E n \in {-24, 24} : step(n)

SpecSegments == InitSegments /\ [][NextSegments]_vars

\* the remote control: well-formed and malformed command files
GoodCommands ==
    {<<"PLAY">>, <<"pause">>,
     <<"step", str(1)>>, <<"step", str(-1)>>, <<"Seek", str(ClipFrames + 1)>>}

BadCommands ==
    {<<>>, <<"bogus">>, <<"step">>, <<"seek">>, <<"stepp", str(1)>>,
     <<"step", <<"x">>>>, <<"seek", <<"1", ".", "5">>>>, <<"seek", <<"-">>>>}

NextRemote ==
    \/ open_file(SegA)
    \/ \E c \in GoodCommands \cup BadCommands : poll_commands(c)
    \/ \E t \in Threads : decode_loop_test(t)
    \/ \E t \in Threads : decode_loop_body(t)

SpecRemote == Init /\ [][NextRemote]_vars

\* scrubbing and playback with the timers of Tk
NextTk ==
    \/ open_file_tk(SegA)
    \/ \E v \in SliderValues : on_slider_tk(v)
    \/ on_scrub_end_tk
    \/ toggle_play_tk
    \/ update_ui_loop
    \/ Tick
    \/ \E t \in Threads : decode_loop_test(t)
    \/ \E t \in Threads : decode_loop_body(t)

SpecTk == Init /\ [][NextTk]_vars

\* the clock of one decode loop
NextPacing ==
    \/ \E delay \in 1..FrameInterval : decode_loop_start(delay)
    \/ \E work \in 0..MaxWork, over \in 0..MaxOversleep : decode_loop_pacing(work, over)

SpecPacing == Init /\ [][NextPacing]_vars

\* playback whose read or frame callback can fail
NextFaults ==
    \/ open_file(SegA)
    \/ \E n \in {-1, 1} : step(n)
    \/ toggle_play
    \/ \E t \in Threads : decode_loop_test(t)
    \/ \E t \in Threads : decode_loop_body(t)
    \/ \E t \in Threads : decode_loop_raise(t)

SpecFaults == Init /\ [][NextFaults]_vars

\* an export in flight while another segment is opened
NextExportRace ==
    \/ \E path \in {SegA, SegLong} : open_file(path)
    \/ FormIdle /\ \E res \in {"640", "320"} : set_resolution(res)
    \/ \E yes \in BOOLEAN : export_clip(yes)
    \/ do_export_run
    \/ do_export_thumb
    \/ do_export_except
    \/ do_export_finally
    \/ run_after

SpecExportRace == Init /\ [][NextExportRace]_vars

\* IN/OUT points and markers of segments with the same and with different
\* file names
StoreSources == {SegA, SegB, SegLong}

NextStore ==
    \/ \E path \in StoreSources : open_file(path)
    \/ execute_command(<<"seek", 1>>)
    \/ set_in_point("ok")
    \/ set_out_point("ok")
    \/ add_marker("ok")
    \/ delete_marker("ok")

SpecStore == Init /\ [][NextStore]_vars

\* ------------------------------------------------------------- properties
Loaded == player.cap # NoCap /\ player.total_frames >= 1

AliveThreads == {t \in Threads : player.threads[t] # "dead"}

\* C1: at most one decode thread exists at any time, whatever sequence of
\* play, pause, toggle, seek, scrub end, load and remote commands ran
C1_AtMostOneDecodeUnit == Cardinality(AliveThreads) <= 1

\* current_frame and the read cursor are both at the clamped frame
LandedOn(f) ==
    /\ player'.current_frame = clamp(f, player.total_frames)
    /\ player'.pos = clamp(f, player.total_frames)

\* C2: with a source of at least one frame loaded, seek(f) and step(n)
\* return with current_frame and the read cursor at max(0, min(f, total-1))
C2_SeekClamps ==
    [][Loaded =>
         /\ \A f \in SeekInputs : execute_command(<<"seek", f>>) => LandedOn(f)
         /\ \A v \in SliderValues : on_slider(v) => LandedOn(v)
         /\ \A n \in StepInputs : step(n) => LandedOn(player.current_frame + n)]_vars

C4_LoadDiscardsScrub ==
    [][(last.op = "load_video" /\ on_scrub_end) =>
          /\ player'.playing = player.playing
          /\ player'.threads = player.threads]_vars

ActiveLoop(p) == p.loop_out > 0 /\ p.loop_in < p.loop_out

\* one frame interval, in ticks
Interval(p) == TicksPerSecond \div p.fps

\* the timestamp of the cursor after the read of the coming iteration
TimeAfterRead(p) == get_current_time([p EXCEPT !.pos = @ + 1])

\* C5 as stated: while playing with an active loop region the position never
\* exceeds loop_out by more than one frame interval, and the iteration in
\* which the cursor reaches loop_out moves it to loop_in, at a position
\* that is not before loop_in
C5_LoopNeverOvershoots ==
    [][/\ (player'.playing /\ ActiveLoop(player')) =>
            get_current_time(player') <= player'.loop_out + Interval(player')
       /\ \A t \in Threads :
            (/\ decode_loop_body(t) /\ ActiveLoop(player) /\ read_ret(player)
             /\ TimeAfterRead(player) >= player.loop_out)
            => /\ player'.current_frame = (player.loop_in * player.fps) \div TicksPerSecond
               /\ get_current_time(player') >= player.loop_in]_vars

\* C5 amended: with an active loop region every decode iteration that reads
\* a frame ends with the cursor below loop_out; if the timestamp after the
\* read reached loop_out, cursor and current_frame are at frame
\* floor(loop_in * fps), at most loop_in and less than one frame interval
\* before it; otherwise both advanced by one
C5_LoopJumpsOnReach ==
    [][\A t \in Threads :
         (decode_loop_body(t) /\ ActiveLoop(player) /\ read_ret(player)) =>
           /\ get_current_time(player') < player.loop_out
           /\ TimeAfterRead(player) >= player.loop_out =>
                /\ player'.current_frame = (player.loop_in * player.fps) \div TicksPerSecond
                /\ player'.pos = player'.current_frame
                /\ get_current_time(player') <= player.loop_in
                /\ player.loop_in < get_current_time(player') + Interval(player)
           /\ TimeAfterRead(player) < player.loop_out =>
                /\ player'.current_frame = player.current_frame + 1
                /\ player'.pos = player.pos + 1]_vars

\* a decode iteration has just jumped back to a loop_in inside the media
C5_Witness ==
    /\ last.op = "_decode_loop" /\ ActiveLoop(player) /\ player.loop_in > 0
    /\ player.playing
    /\ player.current_frame < last.cf0
    /\ player.pos = FrameAt(player, player.loop_in)

\* C9: not playing, step(+N) then step(-N) from frame k with k+N inside
\* the media returns current_frame and the cursor to k
C9_StepInverse ==
    [][\A n \in StepInputs :
         (/\ last.op = "step" /\ last.arg = -n /\ ~last.playing0
          /\ 0 <= last.cf0 - n /\ last.cf0 - n <= player.total_frames - 1
          /\ step(n))
         => /\ player'.current_frame = last.cf0
            /\ player'.pos = last.cf0]_vars

SameAfterSeek ==
    /\ player'.current_frame = player.current_frame
    /\ player'.pos = player.pos
    /\ player'.playing = player.playing
    /\ player'.decode_running = player.decode_running
    /\ player'.was_playing_before_scrub = player.was_playing_before_scrub
    /\ player'.decode_thread = player.decode_thread

\* C10: a second seek(f) right after seek(f) leaves current_frame, cursor,
\* playing, _decode_running, _was_playing_before_scrub and the thread
\* reference as the first one left them
C10_SeekIdempotent ==
    [][/\ \A f \in SeekInputs :
            (last.op = "seek" /\ last.arg = f /\ execute_command(<<"seek", f>>))
            => SameAfterSeek
       /\ \A v \in SliderValues :
            (last.op = "on_slider" /\ last.arg = v /\ on_slider(v))
            => SameAfterSeek]_vars
\* ------------------------------------------------------------------ export
Range(seq) == {seq[i] : i \in DOMAIN seq}

Blank(name) == \A i \in DOMAIN name : name[i] = " "

Errors(seq) == {d \in Range(seq) : d.kind = "showerror"}

Asked(seq) == \E d \in Range(seq) : d.kind = "askyesno"

NoThreadStarted == UNCHANGED <<export, export_btn, status_var, after_queue, files>>

\* C6: export_clip reports the first failing check of (1) no source loaded,
\* (2) out_point <= in_point, (3) output name blank after stripping, as the
\* one and only dialog; it then asks for no confirmation, starts no export
\* thread and leaves the export button enabled.  With (1)-(3) passed it
\* reports no error.
C6_ValidationOrder ==
    [][\A yes \in BOOLEAN : export_clip(yes) =>
         /\ current_segment = NoSegment =>
              shown' = <<Dialog("showerror", "No video loaded")>>
         /\ current_segment # NoSegment /\ out_point <= in_point =>
              shown' = <<Dialog("showerror", "OUT point must be after IN point")>>
         /\ current_segment # NoSegment /\ out_point > in_point
               /\ Blank(output_name_var) =>
              shown' = <<Dialog("showerror", "Please enter an output name")>>
         /\ Errors(shown') # {} =>
              /\ Len(shown') = 1
              /\ ~Asked(shown')
              /\ NoThreadStarted
              /\ export_btn' = "normal"
         /\ current_segment # NoSegment /\ out_point > in_point
               /\ ~Blank(output_name_var) =>
              Errors(shown') = {}]_vars

\* the range error was reported while the name was blank as well
C6_Witness ==
    /\ shown = <<Dialog("showerror", "OUT point must be after IN point")>>
    /\ current_segment # NoSegment
    /\ out_point <= in_point
    /\ Blank(output_name_var)
    /\ export.started = 0

FormValid ==
    /\ current_segment # NoSegment
    /\ out_point > in_point
    /\ ~Blank(output_name_var)

TooLong ==
    \/ resolution_var = "640" /\ out_point - in_point > 16 * TicksPerSecond
    \/ resolution_var # "640" /\ out_point - in_point > 66 * TicksPerSecond

\* C7: export_clip asks for confirmation iff checks (1)-(3) passed and
\* out_point - in_point is strictly greater than 16 s (640 profile) or 66 s
\* (320 profile); the export thread, which alone runs the transcoder, is
\* started only if nothing was asked or the answer was yes; a declined
\* confirmation leaves status, export button, export thread, pending
\* callbacks and output files unchanged.
C7_ConfirmationIffTooLong ==
    [][\A yes \in BOOLEAN : export_clip(yes) =>
         /\ Asked(shown') <=> (FormValid /\ TooLong)
         /\ export'.started > export.started => (~Asked(shown') \/ yes)
         /\ FormValid /\ (~TooLong \/ yes) =>
              export'.started = export.started + 1 /\ export'.pc = "start"
         /\ Asked(shown') /\ ~yes =>
              /\ NoThreadStarted
              /\ UNCHANGED <<player, current_segment, in_point, out_point, index,
                             output_name_var, resolution_var>>]_vars
   /\ [][export'.pc = "start" /\ export.pc # "start" =>
           \E yes \in BOOLEAN : export_clip(yes)]_vars
   /\ [][do_export_run => export.pc = "start"]_vars

\* a confirmation one tick over the 640 limit was declined
C7_Witness ==
    /\ shown = <<Dialog("askyesno", "Warning")>>
    /\ resolution_var = "640"
    /\ out_point - in_point = 16 * TicksPerSecond + 1
    /\ export.started = 0
    /\ export_btn = "normal"
    /\ status_var # "Exporting..."

Success(seq) ==
    /\ \E d \in Range(seq) : d.kind = "showinfo"
    /\ Dialog("status", "Export complete") \in Range(seq)

Failure(seq) ==
    /\ Errors(seq) # {}
    /\ Dialog("status", "Export failed") \in Range(seq)

\* C8: when the last callback of a started export has run (the one that
\* enables the export button again), the UI has been given exactly one of
\* Success (completion dialog with the output path and export-complete
\* status) and Failure (error dialog with the diagnostic and export-failed
\* status).
C8_ExactlyOneOutcome ==
    [][(after_queue # <<>> /\ Head(after_queue) = "enable_export_btn" /\ run_after)
         => (Success(shown') # Failure(shown'))]_vars

\* -------------------------------------------------------------------- load
\* C11: loading a path that cannot be opened does not complete as a load:
\* it does not end with a 'Loaded' status and a source of 0 frames as the
\* current one
C11_UnopenableLoadFails ==
    [][open_file(SegBad) =>
          ~(/\ status_var' = "Loaded: " \o basename(SegBad)
            /\ current_segment' = SegBad
            /\ player'.cap = SegBad
            /\ player'.total_frames = 0)]_vars

\* the frame rate load works with: 24 when the source reports 0
RateOf(path) == IF SourceFps(path) = 0 THEN 24 ELSE SourceFps(path)

\* C12: a load of a source that opens ends with current_frame and the
\* cursor at frame 0, with total_frames, fps (24 when the source reports 0)
\* and duration = total_frames / fps of the new source, with the new source
\* as the only open handle, and playing exactly if it was playing before
C12_LoadResets ==
    [][\A path \in {SegA, SegB} : open_file(path) =>
          /\ player'.current_frame = 0
          /\ player'.pos = 0
          /\ player'.total_frames = SourceFrames(path)
          /\ player'.fps = RateOf(path)
          /\ player'.duration * RateOf(path) = SourceFrames(path) * TicksPerSecond
          /\ player'.cap = path
          /\ player'.playing = player.playing]_vars

\* ----------------------------------------------------------------- markers
Sorted(ms) == \A i, j \in DOMAIN ms : i < j => ms[i] < ms[j]

\* no two markers closer than 0.1 s: 10 * |a - b| >= 1 s
Spaced(ms) ==
    \A i, j \in DOMAIN ms : i # j => 10 * Abs(ms[i] - ms[j]) >= TicksPerSecond

\* C13: add_marker at a time within 0.1 s of a stored marker changes neither
\* the marker list nor the index, in memory or on disk; the marker list is
\* always sorted ascending with no two markers closer than 0.1 s
C13_AddMarkerIdempotent ==
    /\ [][\A w \in WriteOutcomes :
            (/\ add_marker(w)
             /\ \E i \in DOMAIN markers :
                   10 * Abs(markers[i] - get_current_time(player)) < TicksPerSecond)
            => UNCHANGED <<markers, index, index_file>>]_vars
    /\ [](Sorted(markers) /\ Spaced(markers))

\* two markers are stored and the cursor is within 0.1 s of one of them,
\* but not on it, after an add_marker
C13_Witness ==
    /\ last.op = "add_marker"
    /\ Len(markers) = 2
    /\ \E i \in DOMAIN markers :
          /\ markers[i] # get_current_time(player)
          /\ 10 * Abs(markers[i] - get_current_time(player)) < TicksPerSecond

\* ms without its element at position i
Without(ms, i) == [k \in 1..(Len(ms) - 1) |-> IF k < i THEN ms[k] ELSE ms[k + 1]]

\* C14: delete_marker at time t removes exactly one marker, one that
\* minimizes |m - t|, and keeps the others in their order; the index entry
\* holds the new list; with no markers it changes neither list nor index
C14_DeleteNearest ==
    [][\A w \in WriteOutcomes : delete_marker(w) =>
         /\ markers = <<>> => UNCHANGED <<markers, index, index_file>>
         /\ markers # <<>> =>
              /\ \E i \in DOMAIN markers :
                   /\ \A j \in DOMAIN markers :
                        Abs(markers[i] - get_current_time(player))
                           <= Abs(markers[j] - get_current_time(player))
                   /\ markers' = Without(markers, i)
              /\ index'[basename(current_segment)].markers = markers']_vars

\* the marker at the cursor was deleted and an earlier one, farther away,
\* is still there
C14_Witness ==
    /\ last.op = "delete_marker"
    /\ Len(markers) = 1
    /\ markers[1] < get_current_time(player)
    /\ index[basename(current_segment)].markers = markers

\* ------------------------------------------------------------------- index
\* a handler has just written the index file completely
Saved ==
    \/ set_in_point("ok")
    \/ set_out_point("ok")
    \/ add_marker("ok") /\ markers' # markers
    \/ delete_marker("ok") /\ markers' # markers

WriteFailures == {"denied", "partial"}

\* C16: when the write of the index file fails in set_in_point,
\* set_out_point, add_marker or delete_marker, the new in_point / out_point,
\* loop bound, marker list and index entry of that call stay in memory
C16_MemoryAuthoritative ==
    [][\A w \in WriteFailures :
         LET t == get_current_time(player)
             key == basename(current_segment)
             Points(ip, op) ==
                 /\ key \in DOMAIN index'
                 /\ {"in_point", "out_point"} \subseteq DOMAIN index'[key]
                 /\ index'[key].in_point = ip /\ index'[key].out_point = op
             Markers ==
                 /\ key \in DOMAIN index'
                 /\ "markers" \in DOMAIN index'[key]
                 /\ index'[key].markers = markers'
         IN current_segment # NoSegment =>
            /\ set_in_point(w) =>
                 /\ in_point' = t /\ player'.loop_in = t
                 /\ Points(t, out_point)
            /\ set_out_point(w) =>
                 /\ out_point' = t /\ player'.loop_out = t
                 /\ Points(in_point, t)
            /\ (add_marker(w) /\ \A i \in DOMAIN markers :
                                    10 * Abs(markers[i] - t) >= TicksPerSecond) =>
                 /\ Len(markers') = Len(markers) + 1
                 /\ \E i \in DOMAIN markers' : markers'[i] = t
                 /\ Markers
            /\ (delete_marker(w) /\ markers # <<>>) =>
                 /\ Len(markers') = Len(markers) - 1
                 /\ Markers]_vars

\* an IN point was set while the write failed: memory has it, the file not
C16_Witness ==
    /\ last.op = "set_in_point"
    /\ current_segment # NoSegment
    /\ in_point > 0
    /\ player.loop_in = in_point
    /\ index[basename(current_segment)].in_point = in_point
    /\ load_index # index

\* --------------------------------------------------------- remote commands
\* C17: an empty command, a command whose first word is no action, and a
\* step or seek without an argument or with one that is not an integer
\* change nothing of the player, the IN/OUT points, the markers, the
\* current segment, the segment selection, the index, the status line and
\* the export, and the command file is polled again
C17_BadCommandsIgnored ==
    [][\A c \in {<<>>, <<"bogus">>, <<"step">>, <<"seek">>, <<"stepp", <<"1">>>>,
                 <<"step", <<"x">>>>, <<"seek", <<"1", ".", "5">>>>,
                 <<"seek", <<"-">>>>} :
         poll_commands(c) =>
            /\ UNCHANGED <<player, in_point, out_point, markers, current_segment,
                           segment_var, index, index_file, status_var,
                           output_name_var, evars, files>>
            /\ poll_timer']_vars

\* a command was ignored during playback, away from the first frame
C17_Witness ==
    /\ last.op = "_poll_commands"
    /\ player.playing
    /\ AliveThreads # {}
    /\ player.current_frame > 0
    /\ poll_timer

\* ------------------------------------------------------------ segment list
\* the position of the selection in the segment list, 0 if it is not in it
Selected ==
    IF \E i \in DOMAIN segment_values : segment_values[i] = segment_var
    THEN CHOOSE i \in DOMAIN segment_values : segment_values[i] = segment_var
    ELSE 0

NotReloaded ==
    UNCHANGED <<segment_var, current_segment, player, in_point, out_point,
                markers, status_var, output_name_var>>

\* C18: the selection is always an entry of the segment list; prev_segment
\* on the first entry and next_segment on the last one change nothing and
\* load nothing; otherwise the selection moves by exactly one entry, which
\* is loaded
C18_NavigationStaysInList ==
    /\ [](Selected \in 1..Len(segment_values))
    /\ [][/\ prev_segment =>
               IF Selected = 1 THEN NotReloaded
               ELSE /\ segment_var' = segment_values[Selected - 1]
                    /\ current_segment' = SegmentFiles[Selected - 1]
          /\ next_segment =>
               IF Selected = Len(segment_values) THEN NotReloaded
               ELSE /\ segment_var' = segment_values[Selected + 1]
                    /\ current_segment' = SegmentFiles[Selected + 1]]_vars

\* prev_segment was called on the first entry while a file opened from
\* elsewhere was the current segment, and that file is still loaded
C18_Witness ==
    /\ last.op = "prev_segment"
    /\ Selected = 1
    /\ current_segment = SegB
    /\ player.cap = SegB

\* ------------------------------------------------------------ decode thread
\* a stop was requested during the life of thread t: the flag is down, or
\* play() has meanwhile replaced t as the referenced thread
StopRequested(t) ==
    /\ player.threads[t] # "dead"
    /\ ~player.decode_running \/ player.decode_thread # t

\* C19: a decode thread that a stop was requested for exits at its next
\* loop check, whatever ran between the request and the check
C19_StopObserved ==
    [][\A t \in Threads :
         (StopRequested(t) /\ decode_loop_test(t)) => player'.threads[t] = "dead"]_vars

\* an operation of the main thread that sets the cursor or reads a frame
Repositions ==
    \/ \E n \in StepInputs : step(n)
    \/ \E f \in SeekInputs : execute_command(<<"seek", f>>)
    \/ goto_in
    \/ goto_out
    \/ prev_marker
    \/ next_marker

\* C20: an operation of the main thread that repositions the cursor or
\* reads a frame has stopped the decode thread first: when it returns no
\* decode thread exists
C20_CursorOwnership ==
    [][Repositions => \A t \in Threads : player'.threads[t] = "dead"]_vars

\* ------------------------------------------------------------ frame counter
\* C21: with a source loaded the frame counter names a frame of the
\* source: 0 <= current_frame < total_frames in every reachable state
C21_FrameInRange ==
    Loaded => 0 <= player.current_frame /\ player.current_frame < player.total_frames

\* ------------------------------------------------------------ loop region
\* C22: the loop region is well formed: loop_in >= 0 and loop_out is either
\* the end-of-media sentinel 0 or lies after loop_in
C22_LoopRegionOrdered ==
    /\ player.loop_in >= 0
    /\ player.loop_out = 0 \/ player.loop_out > player.loop_in

\* ------------------------------------------------------------ end of media
\* C23: playback does not stall at the end of the media: every iteration of
\* a decode loop that no stop was requested for leaves the cursor on a frame
\* of the source (it advanced, jumped to the loop start or wrapped to 0), so
\* the next read delivers a frame
C23_WrapsAtEnd ==
    [][\A t \in Threads :
         (decode_loop_body(t) /\ Loaded /\ ~StopRequested(t))
             => player'.pos < player'.total_frames]_vars

\* ------------------------------------------------------------------ timers
\* no decode thread is alive but the one that seek stops and waits for
OnlyJoinedThread ==
    \/ AliveThreads = {}
    \/ player.playing /\ AliveThreads = {player.decode_thread}

\* C24: at most one _on_scrub_end callback is pending at any time; it runs
\* only when ScrubDelay ms have passed since the latest slider seek, and it
\* does not move the cursor: the seek of a slider event is done by on_slider
\* itself, which lands on the clamped frame before it returns
C24_ScrubDebounce ==
    [][/\ Len(tk'.scrub) <= 1
       /\ on_scrub_end_tk =>
            /\ tk.since_slider >= ScrubDelay
            /\ player'.pos = player.pos
            /\ player'.current_frame = player.current_frame
       /\ \A v \in SliderValues :
            (on_slider_tk(v) /\ Loaded /\ OnlyJoinedThread) => LandedOn(v)]_vars

\* the callback ran after a scrub of a playing source and resumed playback
C24_Witness ==
    /\ last.op = "on_scrub_end"
    /\ player.playing
    /\ tk.scrub = <<>>
    /\ tk.since_slider = ScrubDelay

\* C28: at most one _update_ui_loop callback is pending at any time, and
\* none once the player has been stopped for more than UiDelay ms
C28_OneUiTimerChain ==
    /\ Len(tk.ui) <= 1
    /\ (~player.playing /\ tk.since_stop > UiDelay) => tk.ui = <<>>

\* ------------------------------------------------------------- seek plan
\* C25: an export that starts seeks to max(0, in_point - 5 s) before the
\* input is opened and by the rest, which is between 0 and 5 s, after it,
\* the two adding up to in_point; the requested duration is
\* out_point - in_point and is positive
C25_SeekPlan ==
    [][\A yes \in BOOLEAN :
         (export_clip(yes) /\ export'.pc = "start") =>
            LET margin == CoarseMargin * TicksPerSecond
                plan == export'
            IN /\ in_point >= 0
               /\ plan.coarse_seek = (IF in_point > margin THEN in_point - margin ELSE 0)
               /\ plan.fine_seek = in_point - plan.coarse_seek
               /\ 0 <= plan.fine_seek /\ plan.fine_seek <= margin
               /\ plan.coarse_seek + plan.fine_seek = in_point
               /\ plan.clip_duration = out_point - in_point
               /\ plan.clip_duration > 0]_vars

\* an export started from an IN point more than 5 s into the source
C25_Witness ==
    /\ export.pc = "start"
    /\ export.coarse_seek > 0
    /\ export.fine_seek = CoarseMargin * TicksPerSecond

\* ------------------------------------------------------------------ pacing
\* the target lags the clock by at most one frame interval
LagWithinOneFrame(c) == c.now - c.next_frame_time <= frame_duration

\* C26 as stated: every iteration ends with the target at most one frame
\* interval behind the clock, and an iteration that did not sleep is not
\* followed by a second one that neither sleeps nor takes a frame interval
C26_LagWithinOneFrame ==
    [][\A work \in 0..MaxWork, over \in 0..MaxOversleep :
         decode_loop_pacing(work, over) =>
            /\ LagWithinOneFrame(pace')
            /\ (~pace.slept /\ work < frame_duration) => pace'.slept]_vars

\* C26: every iteration moves the target by exactly one frame interval and
\* sleeps exactly when the new target is ahead of the clock, ending at or
\* after the target; when the clock is more than one frame interval past
\* the new target the target is set to the clock instead; an iteration that
\* did not sleep ends with the target between 0 and one frame interval
\* behind the clock, and the iteration after a reset sleeps unless its own
\* read and callback take a frame interval or more
C26_PacingResyncs ==
    [][\A work \in 0..MaxWork, over \in 0..MaxOversleep :
         decode_loop_pacing(work, over) =>
            LET target == pace.next_frame_time + frame_duration
                read == pace.now + work
            IN /\ pace'.reset <=> read - target > frame_duration
               /\ pace'.next_frame_time = IF pace'.reset THEN read ELSE target
               /\ pace'.slept <=> target > read
               /\ pace'.slept => pace'.now = target + over
               /\ ~pace'.slept =>
                    /\ pace'.now = read
                    /\ 0 <= pace'.now - pace'.next_frame_time
                    /\ LagWithinOneFrame(pace')
               /\ (pace.reset /\ work < frame_duration) => pace'.slept]_vars

\* a stall has made the loop set its target to the clock
C26_Witness ==
    /\ pace.reset
    /\ pace.now = pace.next_frame_time
    /\ pace.now > frame_duration + frame_duration

\* ------------------------------------------------------------ playing flag
\* thread t leaves its loop: the while-condition fails or an iteration raises
LoopExits(t) ==
    /\ decode_loop_test(t) \/ decode_loop_raise(t)
    /\ player'.threads[t] = "dead"

\* C27: a decode loop that exits although no stop was requested leaves the
\* player stopped: playing and _decode_running are both False
C27_ExitStopsPlayer ==
    [][\A t \in Threads :
         (LoopExits(t) /\ ~StopRequested(t))
             => ~player'.playing /\ ~player'.decode_running]_vars

\* ------------------------------------------------------------ export input
\* C29: the transcoder is run on the segment that was loaded, and checked,
\* when export_clip was called, with the seek plan, duration and resolution
\* of that call
C29_ExportUsesValidatedSource ==
    [][do_export_run =>
         /\ export'.input = export.validated
         /\ export'.res = export.res
         /\ export'.coarse_seek = export.coarse_seek
         /\ export'.fine_seek = export.fine_seek
         /\ export'.clip_duration = export.clip_duration]_vars

\* ------------------------------------------------------------ index entries
\* the index entry of the segment at path, <<>> if it has none
EntryOf(d, path) == IF basename(path) \in DOMAIN d THEN d[basename(path)] ELSE <<>>

\* a handler that changes an IN/OUT point or the markers has run with a
\* write of the index file that completed
Mutating ==
    /\ current_segment # NoSegment
    /\ \/ set_in_point("ok")
       \/ set_out_point("ok")
       \/ add_marker("ok")
       \/ delete_marker("ok")

\* load_video takes IN/OUT points and markers from the entry of the file
\* name, or 0, the duration and no markers, and changes no entry
Restores(path) ==
    LET entry == EntryOf(index, path) IN
    /\ in_point' = IF "in_point" \in DOMAIN entry THEN entry.in_point ELSE 0
    /\ out_point' = IF "in_point" \in DOMAIN entry THEN entry.out_point
                    ELSE player'.duration
    /\ markers' = IF "markers" \in DOMAIN entry THEN entry.markers ELSE <<>>
    /\ index' = index
    /\ index_file' = index_file

\* the entry of the loaded segment holds what the handler has just set
Records ==
    LET entry == EntryOf(index', current_segment) IN
    /\ (set_in_point("ok") \/ set_out_point("ok")) =>
          /\ {"in_point", "out_point"} \subseteq DOMAIN entry
          /\ entry.in_point = in_point' /\ entry.out_point = out_point'
    /\ ((add_marker("ok") \/ delete_marker("ok")) /\ markers' # markers) =>
          /\ "markers" \in DOMAIN entry
          /\ entry.markers = markers'

\* C30 as stated: a handler that runs while one segment is loaded leaves
\* the index entry of every other segment as it was
C30_OtherSegmentsUntouched ==
    [][Mutating =>
         \A path \in StoreSources :
            path # current_segment => EntryOf(index', path) = EntryOf(index, path)]_vars

\* C30: IN/OUT points and markers are kept per file name: a handler writes
\* the entry of the loaded segment's file name and leaves the entries of
\* all other file names as they were, load_video restores from the entry of
\* the file name or takes 0, the duration and no markers, and after a write
\* that completed the file holds the index that is in memory
C30_PerKeyStore ==
    [][/\ \A path \in StoreSources : open_file(path) => Restores(path)
       /\ Mutating =>
            /\ Records
            /\ DOMAIN index' \subseteq DOMAIN index \cup {basename(current_segment)}
            /\ \A path \in StoreSources :
                  basename(path) # basename(current_segment)
                      => EntryOf(index', path) = EntryOf(index, path)
       /\ (Mutating /\ Saved) =>
            /\ index_file'.kind = "json"
            /\ json_load(index_file'.doc) = index']_vars

\* segment A is loaded again with its IN point and marker restored, after
\* another segment was loaded and given an IN point of its own
C30_Witness ==
    /\ current_segment = SegA
    /\ last.op = "load_video"
    /\ in_point > 0
    /\ markers # <<>>
    /\ basename(SegLong) \in DOMAIN index
    /\ "in_point" \in DOMAIN index[basename(SegLong)]
    /\ index[basename(SegLong)].in_point # in_point

====
